---- MODULE Spec2Model ----
(***************************************************************************)
(* Model of pages/table_view.py: the order-book table page.                *)
(*                                                                         *)
(* Text is a sequence of one-character strings, so that strip(), replace() *)
(* and float() act on characters.  A cell of a table is a record           *)
(* [k, s, n]: k is the Python kind of the value, s its text (kind "str"),  *)
(* n its number (kind "float": the value in hundredths; kinds "date" and   *)
(* "ts": the day, see isoformat).                                          *)
(***************************************************************************)
EXTENDS Integers, Sequences, FiniteSets, TLC

\* ------------------------------------------------------------------ bounds

\* Longest edited table handed to normalize_df (SpecNorm).
MaxEdited == 2
\* Calls of save_data / load_data in one run of the contract (SpecSync).
MaxCalls == 3
\* Longest table saved in SpecSync and SpecConc.
MaxTable == 2
\* Full insert batches of the longest table saved in SpecBatch.
MaxBatches == 2
\* Clicks on Apply Changes in one session (SpecPage).
MaxApplies == 1
\* Clicks on Update Changes in one session (SpecPage).
MaxClicks == 2
\* Longest table the data editor returns in SpecPage.
MaxPageRows == 1

\* ------------------------------------------------------------------ values

Cell(k, s, n) == [k |-> k, s |-> s, n |-> n]

None == Cell("none", <<>>, 0)      \* Python None
NaN == Cell("nan", <<>>, 0)        \* float("nan")
NA == Cell("na", <<>>, 0)          \* pd.NA
NaT == Cell("nat", <<>>, 0)        \* pd.NaT
Str(s) == Cell("str", s, 0)
Float(n) == Cell("float", <<>>, n) \* n hundredths
Date(d) == Cell("date", <<>>, d)   \* datetime.date
Ts(d) == Cell("ts", <<>>, d)       \* pd.Timestamp on day d at 10:30:00

Digit == <<"0", "1", "2", "3", "4", "5", "6", "7", "8", "9">>

DigitSet == {Digit[i] : i \in 1..Len(Digit)}

DigitVal(c) == (CHOOSE i \in 1..Len(Digit) : Digit[i] = c) - 1

\* The days of the model's calendar, as date.isoformat() writes them.
isoformat(d) ==
  CASE d = 0 -> <<"1", "9", "7", "0", "-", "0", "1", "-", "0", "1">>
    [] d = 1 -> <<"2", "0", "2", "4", "-", "0", "1", "-", "1", "5">>
    [] OTHER -> <<"2", "0", "2", "4", "-", "1", "2", "-", "3", "1">>

Days == {0, 1, 2}

RECURSIVE IntText(_)
\* str() of a non-negative integer.
IntText(n) == IF n < 10 THEN <<Digit[n + 1]>> ELSE IntText(n \div 10) \o <<Digit[(n % 10) + 1]>>

\* repr() of a non-negative float of at most two decimals: 12.5, 12.0, 0.25.
FloatText(n) ==
  IntText(n \div 100) \o <<".">> \o
    (IF n % 10 = 0 THEN <<Digit[((n % 100) \div 10) + 1]>>
     ELSE <<Digit[((n % 100) \div 10) + 1], Digit[(n % 10) + 1]>>)

\* str(x)
PyStr(x) ==
  CASE x.k = "none" -> <<"N", "o", "n", "e">>
    [] x.k = "nan" -> <<"n", "a", "n">>
    [] x.k = "na" -> <<"<", "N", "A", ">">>
    [] x.k = "nat" -> <<"N", "a", "T">>
    [] x.k = "str" -> x.s
    [] x.k = "float" -> FloatText(x.n)
    [] x.k = "date" -> isoformat(x.n)
    [] OTHER -> isoformat(x.n) \o <<" ", "1", "0", ":", "3", "0", ":", "0", "0">>

RECURSIVE LStrip(_)
LStrip(s) == IF s # <<>> /\ Head(s) = " " THEN LStrip(Tail(s)) ELSE s

RECURSIVE RStrip(_)
RStrip(s) == IF s # <<>> /\ s[Len(s)] = " " THEN RStrip(SubSeq(s, 1, Len(s) - 1)) ELSE s

\* str.strip()
Strip(s) == RStrip(LStrip(s))

\* str.replace(c, "")
Remove(s, c) == SelectSeq(s, LAMBDA ch : ch # c)

\* pd.isna(x)
IsNa(x) == x.k \in {"none", "nan", "na", "nat"}

\* ------------------------------------------------------------------ helpers

RECURSIVE IntVal(_)
\* The number a sequence of digits writes ("" is 0).
IntVal(s) == IF s = <<>> THEN 0 ELSE IntVal(SubSeq(s, 1, Len(s) - 1)) * 10 + DigitVal(s[Len(s)])

\* Where the decimal point of t is (Len(t) + 1 when it has none).
DotAt(t) == IF \E i \in 1..Len(t) : t[i] = "." THEN CHOOSE i \in 1..Len(t) : t[i] = "." ELSE Len(t) + 1

\* float(s) succeeds.  The literals of the model are "nan" and the unsigned
\* decimals of at most two fraction digits, with blanks around them allowed.
IsFloatText(s) ==
  LET t == Strip(s) IN
    \/ t = <<"n", "a", "n">>
    \/ /\ \A i \in 1..Len(t) : t[i] \in DigitSet \/ i = DotAt(t)
       /\ \E i \in 1..Len(t) : t[i] \in DigitSet
       /\ Len(t) - DotAt(t) <= 2

\* float(s), for s with IsFloatText(s).
FloatOfText(s) ==
  LET t == Strip(s)
      frac == SubSeq(t, DotAt(t) + 1, Len(t))
  IN IF t = <<"n", "a", "n">> THEN NaN
     ELSE Float(IntVal(SubSeq(t, 1, DotAt(t) - 1)) * 100
                + (IF Len(frac) = 1 THEN IntVal(frac) * 10 ELSE IntVal(frac)))

\* pd.to_datetime(x, errors="coerce").date(): a date or a timestamp gives its
\* day, a number counts nanoseconds from the epoch (day 0), a text is parsed
\* leniently (ISO, ISO with a time of day, month/day/year) and anything the
\* parser does not read is coerced to NaT, whose .date() is NaT.
to_datetime_date(x) ==
  CASE x.k \in {"date", "ts"} -> Date(x.n)
    [] x.k = "float" -> Date(0)
    [] x.k = "str" ->
         IF \E d \in Days : x.s = isoformat(d) \/ x.s = PyStr(Ts(d))
         THEN Date(CHOOSE d \in Days : x.s = isoformat(d) \/ x.s = PyStr(Ts(d)))
         ELSE IF x.s = <<"0", "1", "/", "1", "5", "/", "2", "0", "2", "4">> THEN Date(1)
         ELSE NaT
    [] OTHER -> NaT

parse_date(x) ==
  IF x.k = "none" \/ Strip(PyStr(x)) \in {<<>>, <<"N", "o", "n", "e">>, <<"N", "a", "T">>}
  THEN NaT
  ELSE IF IsNa(x) THEN NaT
  ELSE to_datetime_date(x)

parse_price(x) ==
  IF x.k = "none" \/ Strip(PyStr(x)) = <<>>
  THEN NA
  ELSE LET s == Remove(Remove(PyStr(x), "$"), ",") IN
         IF IsFloatText(s) THEN FloatOfText(s) ELSE NA

REQUIRED_COLS ==
  <<"WO", "Quote", "PO Number", "Status", "Customer Name", "Model Description",
    "Scheduled Date", "Price">>

Cols == {REQUIRED_COLS[i] : i \in 1..Len(REQUIRED_COLS)}

\* Series.astype(str).str.strip() on one cell of the WO column, with one blank
\* at most taken from each end.
NormWOOneBlank(x) ==
  LET s == PyStr(x)
      l == IF s # <<>> /\ Head(s) = " " THEN Tail(s) ELSE s
  IN Str(IF l # <<>> /\ l[Len(l)] = " " THEN SubSeq(l, 1, Len(l) - 1) ELSE l)

\* Series.astype(str).str.strip() on one cell of the WO column.
NormWO(x) == Str(Strip(PyStr(x)))

\* Series.fillna("").astype(str) on one cell of a text column.
NormText(x) == IF IsNa(x) THEN Str(<<>>) ELSE Str(PyStr(x))

NormRow(r) ==
  [c \in Cols |->
    CASE c = "WO" -> NormWO(r[c])
      [] c = "Scheduled Date" -> parse_date(r[c])
      [] c = "Price" -> parse_price(r[c])
      [] OTHER -> NormText(r[c])]

normalize_df(t) == [i \in 1..Len(t) |-> NormRow(t[i])]

\* The mask of the Apply Changes handler, evaluated on a row of normalize_df.
mask(r) ==
  \/ Strip(r["WO"].s) # <<>>
  \/ Strip(r["Customer Name"].s) # <<>>
  \/ Strip(r["Model Description"].s) # <<>>

\* df_new = normalize_df(edited); df_new = df_new.loc[mask]
ApplyFilter(edited) == SelectSeq(normalize_df(edited), mask)

\* ------------------------------------------------------------------ remote store

\* The value the delete filter compares wo with.
NEVER == <<"_", "_", "_", "n", "e", "v", "e", "r", "_", "_", "_">>

\* The batch size of the insert loop.
BatchSize == 500

StoreCols ==
  {"wo", "quote", "po_number", "status", "customer_name", "model_description",
   "scheduled_date", "price", "uploaded_name"}

\* The column of the remote table a canonical column is written to.
StoreCol(c) ==
  CASE c = "WO" -> "wo"
    [] c = "Quote" -> "quote"
    [] c = "PO Number" -> "po_number"
    [] c = "Status" -> "status"
    [] c = "Customer Name" -> "customer_name"
    [] c = "Model Description" -> "model_description"
    [] c = "Scheduled Date" -> "scheduled_date"
    [] OTHER -> "price"

\* last_uploaded_name or ""
OrEmpty(name) == IF name.k = "str" /\ name.s # <<>> THEN name ELSE Str(<<>>)

\* The dict save_data appends for one row of df.
StorageRow(r, name) ==
  [c \in StoreCols |->
    CASE c = "wo" -> Str(Strip(PyStr(r["WO"])))
      [] c = "scheduled_date" ->
           IF ~IsNa(r["Scheduled Date"]) THEN Str(isoformat(r["Scheduled Date"].n)) ELSE None
      [] c = "price" ->
           IF r["Price"].k # "none" /\ ~IsNa(r["Price"]) THEN Float(r["Price"].n) ELSE None
      [] c = "uploaded_name" -> OrEmpty(name)
      [] OTHER -> Str(PyStr(r[CHOOSE k \in Cols : StoreCol(k) = c]))]

\* rows: the list save_data builds from df.
Payload(t, name) == [i \in 1..Len(t) |-> StorageRow(t[i], name)]

\* insert(batch) that overwrites what the table holds.
insertOver(store, batch) == batch

\* rows[i : i + 500], one row short at the upper end.
SliceShort(rows, i) ==
  SubSeq(rows, i + 1, IF i + BatchSize - 1 < Len(rows) THEN i + BatchSize - 1 ELSE Len(rows))

\* delete().neq("wo", "___never___"): the rows that are left.  The filter
\* wo <> '___never___' selects a row for deletion only when it is true of it.
delete_neq(store) == SelectSeq(store, LAMBDA row : ~(row["wo"] # Str(NEVER)))

\* insert(batch): the rows are added to the table.
insert(store, batch) == store \o batch

\* rows[i : i + 500]
Slice(rows, i) == SubSeq(rows, i + 1, IF i + BatchSize < Len(rows) THEN i + BatchSize ELSE Len(rows))

RECURSIVE InsertFrom(_, _, _, _)
\* for i in range(0, len(rows), 500), from index i on, for k turns at most.
InsertFrom(store, rows, i, k) ==
  IF i >= Len(rows) \/ k = 0 THEN store
  ELSE InsertFrom(insert(store, Slice(rows, i)), rows, i + BatchSize, k - 1)

\* The number of turns of the insert loop over rows.
Turns(rows) == (Len(rows) + BatchSize - 1) \div BatchSize

\* The remote table after a call of save_data that raised nothing.
save_data(store, t, name) ==
  IF t = <<>> THEN delete_neq(store)
  ELSE InsertFrom(delete_neq(store), Payload(t, name), 0, Turns(Payload(t, name)))

\* Where a call of save_data can raise: in the delete (-1), or in the insert
\* that follows k batches.
RaisePoints(t, name) == IF t = <<>> THEN {-1} ELSE (-1)..(Turns(Payload(t, name)) - 1)

\* The remote table after a call of save_data that raised at k.
save_data_raised(store, t, name, k) ==
  IF k < 0 THEN store ELSE InsertFrom(delete_neq(store), Payload(t, name), 0, k)

\* The requests of a call of save_data that the remote table executed: the
\* delete and the first k batches.
Executed(who, t, name, k) ==
  IF k < 0 THEN <<>>
  ELSE <<[by |-> who, op |-> "delete", rows |-> <<>>]>> \o
       [j \in 1..k |-> [by |-> who, op |-> "insert", rows |-> Slice(Payload(t, name), (j - 1) * BatchSize)]]

\* One row of the frame load_data returns.
LoadRow(row) ==
  [c \in Cols |->
    CASE c = "WO" -> row["wo"]
      [] c = "Scheduled Date" -> parse_date(row["scheduled_date"])
      [] c = "Price" -> IF row["price"].k # "none" THEN Float(row["price"].n) ELSE NA
      [] OTHER -> NormText(row[StoreCol(c)])]

\* load_data on the rows the select returned: the frame and the batch label.
load_data(rows) ==
  IF rows = <<>> THEN [table |-> <<>>, name |-> None]
  ELSE [table |-> [i \in 1..Len(rows) |-> LoadRow(rows[i])], name |-> rows[1]["uploaded_name"]]

\* select("*") names no order: the rows come back in any order.
Selects(store) ==
  {[i \in 1..Len(store) |-> store[f[i]]] :
     f \in {g \in [1..Len(store) -> 1..Len(store)] : \A i, j \in 1..Len(store) : g[i] = g[j] => i = j}}

\* ------------------------------------------------------------------ state

VARIABLES
  order_book,            \* the remote table: its rows, in physical order
  df,                    \* st.session_state.df
  last_uploaded_name,    \* st.session_state.last_uploaded_name
  df_version,            \* st.session_state.df_version
  has_unsaved_changes,   \* st.session_state.has_unsaved_changes
  session_ready,         \* "df" in st.session_state
  secrets,               \* st.secrets.get("UPDATE_PASSWORD"): None when not configured
  password,              \* st.session_state.table_update_password
  attempts,              \* what each click on Update Changes showed
  edited,                \* the table the data editor returned
  out,                   \* the results of successive normalize_df passes
  calls,                 \* the calls of save_data and load_data made so far
  pc,                    \* where each running call of save_data is
  arg,                   \* the arguments of each running call of save_data
  at,                    \* the loop index i of each running call of save_data
  requests               \* the requests the remote table has executed

vars ==
  <<order_book, df, last_uploaded_name, df_version, has_unsaved_changes, session_ready,
    secrets, password, attempts, edited, out, calls, pc, arg, at, requests>>

sessionVars ==
  <<df, last_uploaded_name, df_version, has_unsaved_changes, session_ready, secrets, password,
    attempts>>

normVars == <<edited, out>>

stepVars == <<pc, arg, at, requests>>

Callers == {"A", "B"}

\* st.secrets without UPDATE_PASSWORD, and with it.
NoSecrets == [k \in {} |-> ""]

WithSecret == [k \in {"UPDATE_PASSWORD"} |-> "s3cret"]

SessionIdle ==
  /\ df = <<>>
  /\ last_uploaded_name = None
  /\ df_version = 0
  /\ has_unsaved_changes = FALSE
  /\ session_ready = FALSE
  /\ secrets = NoSecrets
  /\ password = ""
  /\ attempts = <<>>

NormIdle == edited = <<>> /\ out = <<>>

StepIdle ==
  /\ pc = [p \in Callers |-> "done"]
  /\ arg = [p \in Callers |-> [t |-> <<>>, name |-> None]]
  /\ at = [p \in Callers |-> 0]
  /\ requests = <<>>

\* ------------------------------------------------------------------ edited tables

\* The row every edited row is a variation of.
BaseRow ==
  [c \in Cols |->
    CASE c = "WO" -> Str(<<"X">>)
      [] c = "Customer Name" -> Str(<<"a">>)
      [] c = "Scheduled Date" -> NaT
      [] c = "Price" -> NA
      [] OTHER -> Str(<<>>)]

With(r, c, v) == [r EXCEPT ![c] = v]

DateCells ==
  { None, NaN, Str(<<" ">>), Str(<<"N", "o", "n", "e">>), Str(<<"N", "a", "T">>),
    Str(isoformat(1)), Str(<<"0", "1", "/", "1", "5", "/", "2", "0", "2", "4">>),
    Str(<<"n", "o", "t", "-", "a", "-", "d", "a", "t", "e">>), Date(2), Ts(1) }

PriceCells ==
  { None, NaN, Str(<<>>), Str(<<" ">>), Str(<<"$", "1", ",", "2", "3", "4", ".", "5", "0">>),
    Str(<<"g", "a", "r", "b", "a", "g", "e">>), Str(<<" ", "7", ".", "5", " ">>),
    Str(<<"$">>), Float(1250), Float(25) }

TextCells == { None, NaN, Str(<<" ", "q", " ">>) }

WOCells ==
  { None, NaN, Str(<<>>), Str(<<" ">>), Str(<<" ", " ", "X", " ", " ">>),
    Str(<<"_", "_", "_", "n", "e", "v", "e", "r", "_", "_", "_">>), Float(700) }

KeyTextCells == { None, Str(<<>>), Str(<<" ">>), Str(<<" ", "m">>) }

\* The rows of an edited table: one column of BaseRow varied at a time, and
\* the three columns the mask reads varied together.
EditedRows ==
  {With(BaseRow, "Scheduled Date", v) : v \in DateCells}
  \cup {With(BaseRow, "Price", v) : v \in PriceCells}
  \cup {With(BaseRow, c, v) : c \in {"Quote", "PO Number", "Status"}, v \in TextCells}
  \cup {With(With(BaseRow, "WO", w), "Customer Name", Str(<<>>)) : w \in WOCells}
  \cup {With(With(With(BaseRow, "WO", w), "Customer Name", c), "Model Description", m) :
          w \in {None, Str(<<" ">>)}, c \in KeyTextCells, m \in KeyTextCells}

Tables(rows, n) == UNION {[1..k -> rows] : k \in 0..n}

\* ------------------------------------------------------------------ SpecNorm

InitNorm ==
  /\ edited \in Tables(EditedRows, MaxEdited)
  /\ out = <<>>
  /\ order_book = <<>>
  /\ calls = <<>>
  /\ SessionIdle
  /\ StepIdle

\* normalize_df applied to the edited table, then to its own result.
Normalize ==
  /\ Len(out) < 2
  /\ out' = Append(out, normalize_df(IF out = <<>> THEN edited ELSE out[Len(out)]))
  /\ UNCHANGED <<edited, order_book, calls, sessionVars, stepVars>>

\* if apply: ... (the Apply Changes handler), on the edited table.
ApplyEdited ==
  /\ Len(out) = 2
  /\ df_version = 0
  /\ df' = ApplyFilter(edited)
  /\ df_version' = df_version + 1
  /\ has_unsaved_changes' = TRUE
  /\ UNCHANGED <<last_uploaded_name, session_ready, secrets, password, attempts>>
  /\ UNCHANGED <<normVars, order_book, calls, stepVars>>

NextNorm == Normalize \/ ApplyEdited

SpecNorm == InitNorm /\ [][NextNorm]_vars

\* ------------------------------------------------------------------ SpecSync

\* The tables handed to save_data: rows that normalize_df has produced.
SavedRows ==
  { NormRow(With(With(BaseRow, "Scheduled Date", Str(isoformat(1))), "Price", Float(1250))),
    NormRow(With(BaseRow, "WO", Str(NEVER))),
    NormRow(With(With(BaseRow, "Quote", Str(<<" ", "q", " ">>)), "Price", NaN)) }

Names == {None, Str(<<"a">>), Str(<<"b">>)}

InitSync ==
  /\ order_book = <<>>
  /\ calls = <<>>
  /\ SessionIdle
  /\ NormIdle
  /\ StepIdle

\* save_data(t, name), returning without error.
Save ==
  /\ Len(calls) < MaxCalls
  /\ \E t \in Tables(SavedRows, MaxTable), name \in Names :
       /\ order_book' = save_data(order_book, t, name)
       /\ calls' = Append(calls, [op |-> "save", table |-> t, name |-> name, rows |-> order_book])
  /\ UNCHANGED <<sessionVars, normVars, stepVars>>

\* load_data(); rows is what the select returned.
Load ==
  /\ Len(calls) < MaxCalls
  /\ \E rows \in Selects(order_book) :
       calls' = Append(calls, [op |-> "load", table |-> load_data(rows).table,
                               name |-> load_data(rows).name, rows |-> rows])
  /\ UNCHANGED <<order_book, sessionVars, normVars, stepVars>>

NextSync == Save \/ Load

SpecSync == InitSync /\ [][NextSync]_vars

\* ------------------------------------------------------------------ SpecConc, SpecBatch

\* The next request of a running call save_data(t, name) that stands at pcv
\* ("delete": before line 35; "insert": in the loop, at index atv), and where
\* the call stands after it.
StepOf(store, t, name, pcv, atv) ==
  IF pcv = "delete"
  THEN [store |-> delete_neq(store), pc |-> IF t = <<>> THEN "done" ELSE "insert", at |-> 0,
        op |-> "delete", rows |-> <<>>]
  ELSE [store |-> insert(store, Slice(Payload(t, name), atv)),
        pc |-> IF atv + BatchSize >= Len(Payload(t, name)) THEN "done" ELSE "insert",
        at |-> atv + BatchSize,
        op |-> "insert", rows |-> Slice(Payload(t, name), atv)]

\* The call of caller p issues its next request and the remote table executes it.
Request(p) ==
  /\ pc[p] # "done"
  /\ LET r == StepOf(order_book, arg[p].t, arg[p].name, pc[p], at[p]) IN
       /\ order_book' = r.store
       /\ pc' = [pc EXCEPT ![p] = r.pc]
       /\ at' = [at EXCEPT ![p] = r.at]
       /\ requests' = Append(requests, [by |-> p, op |-> r.op, rows |-> r.rows])
  /\ UNCHANGED <<arg, calls, sessionVars, normVars>>

NextStep == \E p \in Callers : Request(p)

\* What the remote table can hold before the calls start: nothing, or what an
\* earlier save_data wrote.
EarlierStores ==
  { <<>>,
    Payload(<<NormRow(With(With(BaseRow, "Scheduled Date", Date(2)), "Price", Float(25)))>>, None),
    Payload(<<NormRow(With(BaseRow, "WO", Str(NEVER)))>>, Str(<<"a">>)) }

\* The rows of the tables two concurrent calls save: a filled row, and a row
\* whose WO is the text the delete filter names.
ConcRows ==
  { NormRow(With(With(BaseRow, "Scheduled Date", Str(isoformat(1))), "Price", Float(1250))),
    NormRow(With(BaseRow, "WO", Str(NEVER))) }

\* Two calls of save_data start together.
InitConc ==
  /\ order_book \in EarlierStores
  /\ arg \in [Callers -> [t : Tables(ConcRows, MaxTable), name : Names]]
  /\ pc = [p \in Callers |-> "delete"]
  /\ at = [p \in Callers |-> 0]
  /\ requests = <<>>
  /\ calls = <<>>
  /\ SessionIdle
  /\ NormIdle

SpecConc == InitConc /\ [][NextStep]_vars

\* A normalised table of n rows, all different.
BatchTable(n) == [i \in 1..n |-> With(NormRow(BaseRow), "Price", Float(i))]

\* Table lengths around the batch boundaries.
BatchLens ==
  {1, 2} \cup {k * BatchSize + d : k \in 1..MaxBatches, d \in {-1, 0, 1}}

\* One call of save_data, on a table of up to MaxBatches batches and one row.
InitBatch ==
  /\ order_book \in EarlierStores
  /\ \E n \in BatchLens, name \in Names :
       arg = [p \in Callers |-> IF p = "A" THEN [t |-> BatchTable(n), name |-> name]
                                 ELSE [t |-> <<>>, name |-> None]]
  /\ pc = [p \in Callers |-> IF p = "A" THEN "delete" ELSE "done"]
  /\ at = [p \in Callers |-> 0]
  /\ requests = <<>>
  /\ calls = <<>>
  /\ SessionIdle
  /\ NormIdle

SpecBatch == InitBatch /\ [][NextStep]_vars

\* ------------------------------------------------------------------ SpecPage

\* st.secrets.get(key, default)
SecretsGet(key, default) == IF key \in DOMAIN secrets THEN secrets[key] ELSE default

\* password == correct_password, with the fallback accepted beside a
\* configured secret.
PasswordOkOrFallback(pw) == pw \in {"admin123", SecretsGet("UPDATE_PASSWORD", "admin123")}

\* password == correct_password
PasswordOk(pw) == pw = SecretsGet("UPDATE_PASSWORD", "admin123")

\* The rows the data editor can return: a filled row, a row whose WO is the
\* text the delete filter names, and a row just added (all cells missing).
PageRows ==
  { With(With(BaseRow, "Scheduled Date", Date(1)), "Price", Float(1250)),
    With(BaseRow, "WO", Str(NEVER)),
    [c \in Cols |-> None] }

InitPage ==
  /\ order_book \in EarlierStores
  /\ secrets \in {NoSecrets, WithSecret}
  /\ df = <<>>
  /\ last_uploaded_name = None
  /\ df_version = 0
  /\ has_unsaved_changes = FALSE
  /\ session_ready = FALSE
  /\ password = ""
  /\ attempts = <<>>
  /\ calls = <<>>
  /\ NormIdle
  /\ StepIdle

\* if "df" not in st.session_state: load_data() and the defaults.  When the
\* select raises, the run ends and nothing is set.
SessionInit ==
  /\ ~session_ready
  /\ \/ UNCHANGED <<df, last_uploaded_name, session_ready>>
     \/ \E rows \in Selects(order_book) :
          /\ df' = load_data(rows).table
          /\ last_uploaded_name' = load_data(rows).name
          /\ session_ready' = TRUE
  /\ UNCHANGED <<df_version, has_unsaved_changes, secrets, password, attempts>>
  /\ UNCHANGED <<order_book, calls, normVars, stepVars>>

\* The user types into the password box.
TypePassword ==
  /\ session_ready
  /\ \E pw \in {"admin123", "s3cret", "wrong"} : password' = pw
  /\ UNCHANGED <<df, last_uploaded_name, df_version, has_unsaved_changes, session_ready,
                 secrets, attempts>>
  /\ UNCHANGED <<order_book, calls, normVars, stepVars>>

\* if apply: ... (the Apply Changes handler), on what the data editor returned.
ApplyChanges ==
  /\ session_ready
  /\ df_version < MaxApplies
  /\ \E e \in Tables(PageRows, MaxPageRows) : df' = ApplyFilter(e)
  /\ df_version' = df_version + 1
  /\ has_unsaved_changes' = TRUE
  /\ UNCHANGED <<last_uploaded_name, session_ready, secrets, password, attempts>>
  /\ UNCHANGED <<order_book, calls, normVars, stepVars>>

\* if update_btn: ... (the Update Changes handler).  save_data returns, or a
\* request of it raises and the handler ends there.
UpdateChanges ==
  /\ session_ready
  /\ Len(attempts) < MaxClicks
  /\ IF PasswordOk(password)
     THEN \/ /\ order_book' = save_data(order_book, df, last_uploaded_name)
             /\ requests' = requests \o Executed("page", df, last_uploaded_name,
                                                 IF df = <<>> THEN 0
                                                 ELSE Turns(Payload(df, last_uploaded_name)))
             /\ has_unsaved_changes' = FALSE
             /\ attempts' = Append(attempts, "saved")
          \/ /\ \E k \in RaisePoints(df, last_uploaded_name) :
                  /\ order_book' = save_data_raised(order_book, df, last_uploaded_name, k)
                  /\ requests' = requests \o Executed("page", df, last_uploaded_name, k)
             /\ attempts' = Append(attempts, "error")
             /\ UNCHANGED has_unsaved_changes
     ELSE /\ attempts' = Append(attempts, "rejected")
          /\ UNCHANGED <<order_book, requests, has_unsaved_changes>>
  /\ UNCHANGED <<df, last_uploaded_name, df_version, session_ready, secrets, password>>
  /\ UNCHANGED <<calls, normVars, pc, arg, at>>

NextPage == SessionInit \/ TypePassword \/ ApplyChanges \/ UpdateChanges

SpecPage == InitPage /\ [][NextPage]_vars

\* ------------------------------------------------------------------ claims: normalize

\* A cell a user sees as blank: missing, or text that is empty once trimmed.
BlankCell(x) == IsNa(x) \/ (x.k = "str" /\ Strip(x.s) = <<>>)

BlankRow(r) ==
  BlankCell(r["WO"]) /\ BlankCell(r["Customer Name"]) /\ BlankCell(r["Model Description"])

\* C5: after Apply Changes the session buffer holds the normalised image of
\* exactly the edited rows that are not blank: a row whose WO, Customer Name
\* and Model Description are all empty, whitespace or missing is discarded,
\* and every other row is kept, in order.
C5_BlankRowsDiscarded ==
  df_version = 1 => df = normalize_df(SelectSeq(edited, LAMBDA r : ~BlankRow(r)))

\* C6: normalize_df is idempotent: a second pass over its own result changes
\* no row and no cell.
C6_NormalizeIdempotent == Len(out) = 2 => out[2] = out[1]

\* A second pass has run over a first pass that changed a padded WO, a date
\* text and a price text.
C6_Witness ==
  /\ Len(out) = 2
  /\ Len(edited) = 2
  /\ edited[1]["WO"] = Str(<<" ", " ", "X", " ", " ">>)
  /\ out[1][1]["WO"] = Str(<<"X">>)
  /\ edited[2]["Price"] = Str(<<"$", "1", ",", "2", "3", "4", ".", "5", "0">>)
  /\ out[2][2]["Price"] = Float(123450)

\* ------------------------------------------------------------------ claims: save and load

Range(q) == {q[i] : i \in 1..Len(q)}

Count(q, x) == Cardinality({i \in 1..Len(q) : q[i] = x})

\* The same rows, each as many times, in any order.
SameRows(a, b) == Len(a) = Len(b) /\ \A x \in Range(a) \cup Range(b) : Count(a, x) = Count(b, x)

\* A table with every null sentinel (None, NaN, NA, NaT) read as one.
Nulls(t) == [i \in 1..Len(t) |-> [c \in DOMAIN t[i] |-> IF IsNa(t[i][c]) THEN NA ELSE t[i][c]]]

LastCall == calls[Len(calls)]

PrevCall == calls[Len(calls) - 1]

\* C1: once save_data(T, label) has returned for a non-empty T, the remote
\* table holds exactly one storage row per row of T, each stamped with
\* label (or ""), and nothing that was there before the call.
C1_FullReplace ==
  (calls # <<>> /\ LastCall.op = "save" /\ LastCall.table # <<>>)
    => SameRows(order_book, Payload(LastCall.table, LastCall.name))

\* C2: load_data right after save_data(T, label), T normalised, returns the
\* rows of T: the same cells in the 8 canonical columns, a null for a null.
C2_RoundTrip ==
  (Len(calls) >= 2 /\ LastCall.op = "load" /\ PrevCall.op = "save")
    => /\ SameRows(Nulls(LastCall.table), Nulls(PrevCall.table))
       /\ \A i \in 1..Len(LastCall.table) : DOMAIN LastCall.table[i] = Cols

\* C3: save_data on an empty table leaves the remote table empty, whatever
\* it held and whatever the label, and the next load_data returns an empty
\* table and no label.
C3_SaveEmpty ==
  /\ (calls # <<>> /\ LastCall.op = "save" /\ LastCall.table = <<>>) => order_book = <<>>
  /\ (Len(calls) >= 2 /\ LastCall.op = "load" /\ PrevCall.op = "save" /\ PrevCall.table = <<>>)
       => (LastCall.table = <<>> /\ LastCall.name = None)

\* C4: after save_data(T1, L1) and then save_data(T2, L2) with L1 # L2,
\* load_data reports L2, and the rows one load returns all carry one label.
\* Stated for a non-empty T2 (an empty one stores no label to report) and
\* with a missing L2 read as the "" save_data stamps.
C4_LastLabelWins ==
  (/\ Len(calls) = 3
   /\ calls[1].op = "save" /\ calls[2].op = "save" /\ calls[3].op = "load"
   /\ calls[1].name # calls[2].name
   /\ calls[2].table # <<>>)
    => /\ calls[3].name = OrEmpty(calls[2].name)
       /\ \A i, j \in 1..Len(calls[3].rows) :
            calls[3].rows[i]["uploaded_name"] = calls[3].rows[j]["uploaded_name"]

\* ------------------------------------------------------------------ claims: requests of save_data

RECURSIVE Finals(_, _, _)
\* The contents the remote table can have once every running call has
\* returned, over all orders in which the remaining requests can be executed.
Finals(store, pcs, ats) ==
  IF \A p \in Callers : pcs[p] = "done" THEN {store}
  ELSE UNION { LET r == StepOf(store, arg[p].t, arg[p].name, pcs[p], ats[p]) IN
                 Finals(r.store, [pcs EXCEPT ![p] = r.pc], [ats EXCEPT ![p] = r.at]) :
               p \in {q \in Callers : pcs[q] # "done"} }

\* Every row of b is in a, as many times at least.
Contains(a, b) == \A x \in Range(b) : Count(a, x) >= Count(b, x)

RowsOf(p) == Payload(arg[p].t, arg[p].name)

\* The table holds the rows of both calls.
Mixed(store) ==
  /\ \A p \in Callers : Contains(store, RowsOf(p))
  /\ Len(store) >= Len(RowsOf("A")) + Len(RowsOf("B"))

Starting == \A p \in Callers : pc[p] = "delete"

Returned == \A p \in Callers : pc[p] = "done"

BothNonEmpty == \A p \in Callers : arg[p].t # <<>>

\* C8 as claimed: two concurrent calls of save_data on non-empty tables have
\* an interleaving that ends with a mix of the rows of both, and an
\* interleaving that ends with an empty table.
C8_MixedOrEmpty ==
  (Starting /\ BothNonEmpty)
    => /\ \E f \in Finals(order_book, pc, at) : Mixed(f)
       /\ \E f \in Finals(order_book, pc, at) : f = <<>>

\* C8 amended: there is an interleaving that ends with the rows of both
\* calls in the table, and none that ends with an empty table: once both
\* calls have returned the table holds every row of one of them.
C8_MixedNeverEmpty ==
  /\ (Starting /\ BothNonEmpty) => \E f \in Finals(order_book, pc, at) : Mixed(f)
  /\ (Returned /\ BothNonEmpty)
       => (order_book # <<>> /\ \E p \in Callers : Contains(order_book, RowsOf(p)))

\* Both calls have returned, each deleted before either inserted, and the
\* table holds the rows of both; neither table has a row the delete spares.
C8_Witness ==
  /\ Returned
  /\ BothNonEmpty
  /\ Len(requests) = 4
  /\ requests[1].op = "delete" /\ requests[2].op = "delete"
  /\ requests[1].by # requests[2].by
  /\ \A p \in Callers : \A i \in 1..Len(arg[p].t) : arg[p].t[i]["WO"] # Str(NEVER)
  /\ arg["A"].name # arg["B"].name
  /\ Mixed(order_book)
  /\ SameRows(order_book, RowsOf("A") \o RowsOf("B"))

RECURSIVE Flat(_)
\* The rows of a sequence of requests, one after the other.
Flat(reqs) == IF reqs = <<>> THEN <<>> ELSE reqs[1].rows \o Flat(Tail(reqs))

Inserts == SelectSeq(requests, LAMBDA r : r.op = "insert")

\* The least k with k * d >= n.
Ceil(n, d) == CHOOSE k \in 0..n : k * d >= n /\ (k - 1) * d < n

\* C9: save_data of n > 0 rows issues its inserts after the delete only,
\* each of 1 to 500 rows, carrying consecutive slices of the rows in table
\* order; when it returns every row has been inserted once, none skipped or
\* doubled, in ceil(n / 500) inserts, and the table ends with those rows.
C9_InsertBatching ==
  /\ requests # <<>> =>
       (requests[1].op = "delete" /\ \A k \in 2..Len(requests) : requests[k].op = "insert")
  /\ \A k \in 1..Len(Inserts) : Len(Inserts[k].rows) \in 1..500
  /\ Len(Flat(Inserts)) <= Len(RowsOf("A"))
  /\ Flat(Inserts) = SubSeq(RowsOf("A"), 1, Len(Flat(Inserts)))
  /\ pc["A"] = "done" =>
       /\ Flat(Inserts) = RowsOf("A")
       /\ Len(Inserts) = Ceil(Len(arg["A"].t), 500)
       /\ Len(order_book) >= Len(RowsOf("A"))
       /\ SubSeq(order_book, Len(order_book) - Len(RowsOf("A")) + 1, Len(order_book)) = RowsOf("A")

\* A call on a table of exactly two full batches has returned after two
\* inserts of 500 rows each.
C9_Witness ==
  /\ pc["A"] = "done"
  /\ Len(arg["A"].t) = 2 * BatchSize
  /\ Len(Inserts) = 2
  /\ Len(Inserts[1].rows) = BatchSize /\ Len(Inserts[2].rows) = BatchSize

\* ------------------------------------------------------------------ claims: the page

\* The password the page compares with: the configured secret, or the
\* fallback literal when none is configured.
Configured ==
  IF "UPDATE_PASSWORD" \in DOMAIN secrets THEN secrets["UPDATE_PASSWORD"] ELSE "admin123"

Clicked == Len(attempts') = Len(attempts) + 1

\* C7: the page changes the remote table, and sends it a delete or an insert,
\* only in a click on Update Changes with the password equal to the
\* configured secret; a click with another password is rejected and leaves
\* the table, the session buffer, the batch label and the unsaved flag as
\* they were; a click with the right password runs the save, whatever was
\* rejected before.
C7_PasswordGate ==
  [][ /\ (order_book' # order_book \/ requests' # requests) => (Clicked /\ password = Configured)
      /\ (Clicked /\ password # Configured) =>
           /\ attempts' = Append(attempts, "rejected")
           /\ UNCHANGED <<order_book, requests, df, last_uploaded_name, has_unsaved_changes>>
      /\ (Clicked /\ password = Configured) =>
           /\ attempts' \in {Append(attempts, "saved"), Append(attempts, "error")}
           /\ (attempts' = Append(attempts, "saved")) =>
                (requests' # requests /\ requests'[Len(requests) + 1].op = "delete")
    ]_vars

\* Applied changes were rejected for a wrong password and then saved with
\* the configured one.
C7_Witness ==
  /\ attempts = <<"rejected", "saved">>
  /\ secrets = WithSecret
  /\ df_version = 1
  /\ df # <<>>
  /\ ~has_unsaved_changes
  /\ order_book = Payload(df, last_uploaded_name)

\* C10: in one session with no other writer, whenever the unsaved flag is
\* false the remote table holds exactly the storage rows of the session
\* buffer.
C10_UnsavedFlag ==
  (session_ready /\ ~has_unsaved_changes)
    => SameRows(order_book, Payload(df, last_uploaded_name))

====
